---- MODULE Spec2Model ----
(***************************************************************************)
(* Alicat BASIS driver (alicat/basis.py: BASISMeter, BASISController) and  *)
(* the devices it talks to.                                                *)
(*                                                                         *)
(* Representation.                                                         *)
(*   - A line is the sequence of its whitespace-separated tokens           *)
(*     (line.split()); the empty line '' is the empty sequence.            *)
(*   - A token is a record [txt, num]: a numeric token has txt = "" and    *)
(*     num = its value in hundredths (the wire carries two decimals); a    *)
(*     text token has its text in txt and num = 0.                         *)
(*   - A parsed value has the same shape, with num in thousandths: float() *)
(*     of a numeric token multiplies by 10, formatting with two decimals   *)
(*     rounds thousandths to hundredths.                                   *)
(*   - A state dictionary is the set of its <<key, value>> pairs.          *)
(*   - A command line is [unit, verb, args]: f'{unit}{verb} {args...}'.    *)
(*                                                                         *)
(* Specifications of the driver:                                           *)
(*   Spec         the driver against the simulated BASIS device            *)
(*   SpecParse    the driver against a device that may reply with any line *)
(*                of a bounded grammar (the reply is composed token by     *)
(*                token, then the call is made)                            *)
(*   SpecService  the service operations (tare, totalizer reset, PID       *)
(*                terms, valve hold) against the simulated BASIS device    *)
(*   SpecLink     every operation of the driver over a link that hands it  *)
(*                a chosen reply: a line, the rejection token, an empty    *)
(*                line, or nothing at all (the read timed out)             *)
(* and one of the simulator of the standard protocol (alicat/mock.py):     *)
(*   SpecMock     command lines written to mock.Client and replies read    *)
(*                from it. A command line is there the sequence of its     *)
(*                characters, each a text token, with an argument (a       *)
(*                number or a word) as one token.                          *)
(***************************************************************************)
EXTENDS Integers, Sequences, FiniteSets, TLC

VARIABLES
    cls,        \* the driver's class: "Meter" or "Controller"
    firmware,   \* BASISMeter.firmware: the cached firmware string, or None
    unit,       \* BASISMeter.unit
    keys,       \* BASISMeter.keys
    dev,        \* the simulated device's state
    sim,        \* SpecMock: the attributes of mock.Client
    next_reply, \* the simulated device's buffered reply (_next_reply)
    line,       \* the reply line of the current exchange
    read,       \* SpecLink: what _write_and_read returned to the call made last
    last        \* the driver call made last, with its outcome; a get() also
                \* records the call it came after (operation, argument, error)

vars == <<cls, firmware, unit, keys, dev, sim, next_reply, line, read, last>>

(***************************************************************************)
(* Bounds                                                                  *)
(***************************************************************************)
MaxNums == 6        \* numeric value tokens in a composed reply line
MaxFlags == 2       \* trailing over-range flags in a composed reply line
MaxFlowK == 3       \* set_flow_rate inputs: 0, 3.335, ... (MaxFlowK of them past 0)
MaxHoldK == 1       \* hold inputs: 25 %, ... (MaxHoldK of them past the first)
MaxGasNumber == 9   \* set_gas by number: 0 .. MaxGasNumber (the table ends at 8)
MaxPidK == 1        \* set_pid inputs: P in 100, 500, ..., I in 1000, 5000, ...

(***************************************************************************)
(* Tokens and values                                                       *)
(***************************************************************************)
Num(n) == [txt |-> "", num |-> n]
Txt(s) == [txt |-> s, num |-> 0]

\* util._is_float: the token parses as a number
_is_float(v) == v.txt = ""

\* float(v) if _is_float(v) else v: hundredths on the wire, thousandths parsed
Coerce(v) == IF _is_float(v) THEN Num(v.num * 10) ELSE v

\* f"{x:07.2f}": x in thousandths to the hundredths it may print as. A value
\* midway between two hundredths prints as either (the binary float decides).
Fmt2(x) ==
    LET q == x \div 10
        r == x % 10
    IN  IF r < 5 THEN {q}
        ELSE IF r > 5 THEN {q + 1}
        ELSE {q, q + 1}

Abs(n) == IF n < 0 THEN -n ELSE n
Min(a, b) == IF a < b THEN a ELSE b

\* str.upper() on the tokens the model uses
Upper(s) ==
    CASE s = "mov" -> "MOV"
      [] s = "Mov" -> "MOV"
      [] s = "vov" -> "VOV"
      [] s = "pov" -> "POV"
      [] s = "tov" -> "TOV"
      [] s = "Tov" -> "TOV"
      [] s = "hld" -> "HLD"
      [] OTHER -> s

(***************************************************************************)
(* basis.py: tables                                                        *)
(***************************************************************************)
GASES == <<"Air", "Ar", "CO2", "N2", "O2", "N2O", "H2", "He", "CH4">>

GasNames == {GASES[i] : i \in 1..Len(GASES)}

\* list.index: the 0-based position of the first occurrence
Index(seq, x) == (CHOOSE i \in 1..Len(seq) : seq[i] = x /\ \A j \in 1..(i - 1) : seq[j] # x) - 1

NominalKeys == <<"temperature", "mass_flow", "totalizer", "setpoint", "valve_drive", "gas">>

OverRangeFlags == {"MOV", "VOV", "POV", "TOV"}

\* abs(current - flowrate) > 0.1, in thousandths
Tolerance == 100

(***************************************************************************)
(* Outcomes of a driver call                                               *)
(***************************************************************************)
ErrRead == "OSError: Could not read values"
ErrUnit == "ValueError: Flow controller unit ID mismatch."
ErrZip == "ValueError: zip() argument lengths differ"
ErrIndex == "IndexError: list index out of range"
ErrGas == "ValueError: not supported!"
ErrSetGas == "OSError: Cannot set gas."
ErrSetpoint == "OSError: Could not set setpoint."
ErrFloat == "ValueError: could not convert string to float"
ErrTare == "OSError: Unable to tare flow."
ErrFirmware == "OSError: Unable to get firmware."
ErrPid == "OSError: Could not get PID values."
ErrBatchRead == "OSError: Unable to read totalizer batch volume."
ErrBatchSet == "OSError: Unable to set totalizer batch volume."
ErrAttribute == "AttributeError: 'NoneType' object has no attribute 'split'"
ErrInvalidIndex == "InvalidIndex"
ErrNotImplemented == "NotImplementedError"

Fail(e, ks) == [err |-> e, state |-> {}, keys |-> ks]
Ok(st, ks) == [err |-> "", state |-> st, keys |-> ks]

Has(state, k) == \E p \in state : p[1] = k
Val(state, k) == (CHOOSE p \in state : p[1] = k)[2]

(***************************************************************************)
(* basis.py: the reply parser of get()                                     *)
(***************************************************************************)
Last(s) == s[Len(s)]
ButLast(s) == SubSeq(s, 1, Len(s) - 1)

\* Variant: the membership test without .upper()
IsFlag_CaseSensitive(tok) == tok.txt \in OverRangeFlags

\* values[-1].upper() in ['MOV', 'VOV', 'POV', 'TOV']
IsFlag(tok) == Upper(tok.txt) \in OverRangeFlags

\* while values[-1].upper() in [...]: del values[-1]
\* The loop ends normally only on a non-empty list; on an empty one values[-1]
\* raises IndexError, which the caller sees as an empty result.
RECURSIVE StripFlags(_)
StripFlags(values) ==
    IF values = <<>> THEN values
    ELSE IF IsFlag(Last(values)) THEN StripFlags(ButLast(values))
    ELSE values

\* list.remove(x): without the first occurrence of x
Remove(seq, x) ==
    LET i == Index(seq, x) + 1
    IN  SubSeq(seq, 1, i - 1) \o SubSeq(seq, i + 1, Len(seq))

\* del seq[-n]
DelFromEnd(seq, n) ==
    LET i == Len(seq) - n + 1
    IN  SubSeq(seq, 1, i - 1) \o SubSeq(seq, i + 1, Len(seq))

\* BASISMeter.get: if len(values) == 5 and len(self.keys) == 6: self.keys.remove('setpoint')
MeterNarrow(ks, values) ==
    IF Len(values) = 5 /\ Len(ks) = 6 THEN Remove(ks, "setpoint") ELSE ks

\* Variant: del self.keys[-4], the totalizer position
ControllerNarrow_Totalizer(ks, values) ==
    IF Len(values) = 5 /\ Len(ks) = 6 THEN DelFromEnd(ks, 4) ELSE ks

\* BASISController.get: if len(values) == 5 and len(self.keys) == 6: del self.keys[-3]
ControllerNarrow(ks, values) ==
    IF Len(values) = 5 /\ Len(ks) = 6 THEN DelFromEnd(ks, 3) ELSE ks

\* {k: coerce(v) for k, v in zip(keys, values)} over the first n pairs
Zip(ks, values, n) == {<<ks[i], Coerce(values[i])>> : i \in 1..n}

\* BASISMeter.get on the line read, with self.unit = u and self.keys = ks
MeterGet(u, ks, ln) ==
    IF ln = <<>> THEN Fail(ErrRead, ks)
    ELSE LET values == StripFlags(Tail(ln))
         IN  IF values = <<>> THEN Fail(ErrIndex, ks)
             ELSE IF Head(ln) # Txt(u) THEN Fail(ErrUnit, ks)
             ELSE LET ks1 == MeterNarrow(ks, values)
                  IN  IF Len(ks1) # Len(values) THEN Fail(ErrZip, ks1)
                      ELSE Ok(Zip(ks1, values, Len(values)), ks1)

\* Variant: the first value token is tested instead of the last
IsHeld_First(values) == Head(values) = Txt("HLD")

\* BASISController.get: if values[-1] == "HLD"
IsHeld(values) == Last(values) = Txt("HLD")

\* BASISController.get on the line read
ControllerGet(u, ks, ln) ==
    IF ln = <<>> THEN Fail(ErrRead, ks)
    ELSE LET values == StripFlags(Tail(ln))
         IN  IF values = <<>> THEN Fail(ErrIndex, ks)
             ELSE IF Head(ln) # Txt(u) THEN Fail(ErrUnit, ks)
             ELSE LET ks1 == ControllerNarrow(ks, values)
                      held == IsHeld(values)
                      rest == IF held THEN ButLast(values) ELSE values
                      cp == IF held THEN "HLD" ELSE "mass flow"
                  IN  Ok(Zip(ks1, rest, Min(Len(ks1), Len(rest)))
                             \cup {<<"control_point", Txt(cp)>>}, ks1)

get(c, u, ks, ln) == IF c = "Meter" THEN MeterGet(u, ks, ln) ELSE ControllerGet(u, ks, ln)

(***************************************************************************)
(* basis.py: the other operations' encoders and reply checks               *)
(***************************************************************************)
Cmd(u, verb, args) == [unit |-> u, verb |-> verb, args |-> args]

\* The argument of set_gas: a name (str) or a number (int)
GasName(s) == [isstr |-> TRUE, name |-> s, number |-> 0]
GasNumber(n) == [isstr |-> FALSE, name |-> "", number |-> n]

\* set_gas: if gas not in GASES: raise ValueError
GasRejected(gas) == gas.isstr /\ gas.name \notin GasNames

\* Variant: a 1-based gas number for a name
GasNumberOf_OneBased(gas) == IF gas.isstr THEN Index(GASES, gas.name) + 1 ELSE gas.number

\* set_gas: gas_number = GASES.index(gas) for a name, the number itself otherwise
GasNumberOf(gas) == IF gas.isstr THEN Index(GASES, gas.name) ELSE gas.number

\* Variant: an unknown name silently defaults to gas number 0
SetGasRequest_Default(u, gas) ==
    [err |-> "", cmds |-> <<Cmd(u, "GS", <<IF GasRejected(gas) THEN 0 ELSE GasNumberOf(gas)>>)>>]

\* set_gas up to its write: the error raised before writing, or the command written
SetGasRequest(u, gas) ==
    IF GasRejected(gas)
    THEN [err |-> ErrGas, cmds |-> <<>>]
    ELSE [err |-> "", cmds |-> <<Cmd(u, "GS", <<GasNumberOf(gas)>>)>>]

\* set_flow_rate: line.split()[4]
SetpointPosition == 4

\* Variant: line.split()[3]
Echoed_Shifted(ln) == ln[SetpointPosition]

\* set_flow_rate: the token float() is applied to (line.split()[4])
Echoed(ln) == ln[SetpointPosition + 1]

\* set_flow_rate's check of the echoed line: the error raised, "" for none
SetFlowRateCheck(flowrate, ln) ==
    IF ln = <<>> THEN ErrSetpoint
    ELSE IF Len(ln) < SetpointPosition + 1 THEN ErrSetpoint
    ELSE IF ~_is_float(Echoed(ln)) THEN ErrFloat
    ELSE IF Abs(Coerce(Echoed(ln)).num - flowrate) > Tolerance THEN ErrSetpoint
    ELSE ""

\* The commands the operations write
GetCommand(u) == Cmd(u, "", <<>>)
SetFlowRateCommand(u, flowrate) == Cmd(u, "S", <<flowrate>>)
HoldCommand(u, percentage) == Cmd(u, "HPUR", <<percentage>>)
CancelHoldCommand(u) == Cmd(u, "C", <<>>)

\* What _write_and_read returns: a line (which may be empty), or None
Rep(ln) == [none |-> FALSE, line |-> ln]
None == [none |-> TRUE, line |-> <<>>]

\* not line
Falsy(r) == r.none \/ r.line = <<>>

\* Variant: the test for an empty line instead of the rejection token
IsRejection_Empty(r) == ~r.none /\ r.line = <<>>

\* line == '?'
IsRejection(r) == ~r.none /\ r.line = <<Txt("?")>>

\* f'{n}' for an integer n: the token that reads n (hundredths on the wire)
Str(n) == Num(n * 100)

\* set_gas: if not res: raise OSError("Cannot set gas.")
SetGasCheck(r) == IF Falsy(r) THEN ErrSetGas ELSE ""

\* BASISMeter.tare: f'{self.unit}V {duration}', duration defaulting to 10
DefaultDuration == 10

\* Variant: the totalizer-reset verb in place of the tare verb
TareCommand_Totalizer(u, duration) == Cmd(u, "T", <<>>)

TareCommand(u, duration) == Cmd(u, "V", <<duration>>)

\* tare: if line == '?': raise OSError("Unable to tare flow.")
TareCheck(r) == IF IsRejection(r) THEN ErrTare ELSE ""

\* Variant: the tare verb in place of the totalizer-reset verb
ResetTotalizerCommand_Tare(u) == Cmd(u, "V", <<DefaultDuration>>)

\* BASISMeter.reset_totalizer: f'{self.unit}T'
ResetTotalizerCommand(u) == Cmd(u, "T", <<>>)

\* BASISController.set_pid: f'{self.unit}LCG {p} {i}'
PidArg(p, i) == [isstr |-> FALSE, name |-> "", number |-> p, integral |-> i]
SetPidCommand(u, p, i) == Cmd(u, "LCG", <<p, i>>)

\* BASISController.get_pid: f'{self.unit}LCG'
GetPidCommand(u) == Cmd(u, "LCG", <<>>)
pid_keys == <<"P", "I">>

\* Variant: the reply zipped from its first token, the unit id
PidTerms_FromUnit(ln) == {<<pid_keys[i], ln[i]>> : i \in 1..Min(Len(pid_keys), Len(ln))}

\* spl = line.split(); dict(zip(self.pid_keys, spl[1:], strict=False)): the
\* tokens after the first, as text, paired up to the shorter length
PidTerms(ln) ==
    LET spl == Tail(ln)
    IN  {<<pid_keys[i], spl[i]>> : i \in 1..Min(Len(pid_keys), Len(spl))}

\* get_pid: if not line: raise OSError("Could not get PID values.")
GetPidResult(r, ks) == IF Falsy(r) THEN Fail(ErrPid, ks) ELSE Ok(PidTerms(r.line), ks)

\* BASISMeter.get_firmware: f'{self.unit}VE'
FirmwareCommand(u) == Cmd(u, "VE", <<>>)

\* get_firmware: the request is written only if self.firmware is None
FirmwareFetched(fw) == fw.none

\* get_firmware, given the cache fw and the reply r a fetch would read: the
\* lines written, the replies read, the cache left, the error raised and the
\* string returned
GetFirmwareResult(u, fw, r) ==
    LET fetch == FirmwareFetched(fw)
        fw1 == IF fetch THEN r ELSE fw
    IN  [sent |-> IF fetch THEN <<FirmwareCommand(u)>> ELSE <<>>,
         read |-> IF fetch THEN <<r>> ELSE <<>>,
         firmware |-> fw1,
         err |-> IF Falsy(fw1) THEN ErrFirmware ELSE "",
         state |-> IF Falsy(fw1) THEN {} ELSE {<<"firmware", fw1>>}]

\* BASISController.get_totalizer_batch: f'{self.unit}DV 64', then f'{self.unit}TB'
BatchRegister == 64
RemainingCommand(u) == Cmd(u, "DV", <<BatchRegister>>)
BatchCommand(u) == Cmd(u, "TB", <<>>)

\* remaining.split(" ")[-1], as a line of at most one token
SplitLast(r) == IF r.line = <<>> THEN Rep(<<>>) ELSE Rep(<<Last(r.line)>>)

\* get_totalizer_batch, given the two replies read: the rejection check, then
\* [current, remaining.split(" ")[-1]], where None has no split
GetTotalizerBatchResult(remaining, current, ks) ==
    IF IsRejection(current) \/ IsRejection(remaining) THEN Fail(ErrBatchRead, ks)
    ELSE IF remaining.none THEN Fail(ErrAttribute, ks)
    ELSE Ok({<<"current", current>>, <<"remaining", SplitLast(remaining)>>}, ks)

\* BASISController.set_totalizer_batch: f'{self.unit}TB {batch_volume}'
SetBatchCommand(u, batch_volume) == Cmd(u, "TB", <<batch_volume>>)

\* set_totalizer_batch: if line == '?': raise OSError(...)
SetBatchCheck(r) == IF IsRejection(r) THEN ErrBatchSet ELSE ""

(***************************************************************************)
(* The simulated BASIS device (alicat.mock.BASISClient, which the tests    *)
(* patch in for the serial client). Its write handler is modelled from the *)
(* specification's simulator: adopt the unit id, dispatch on the verb,     *)
(* mutate the device state, buffer a dataframe.                            *)
(***************************************************************************)
\* The dataframe of a device state: unit, five numbers with two decimals, the
\* gas name, and HLD while the valve is held
BasisDataframes(d) ==
    { <<Txt(d.unit), Num(t), Num(m), Num(tot), Num(sp), Num(vd), Txt(d.gas)>>
        \o (IF d.hold THEN <<Txt("HLD")>> ELSE <<>>) :
        t \in Fmt2(d.temperature), m \in Fmt2(d.mass_flow), tot \in Fmt2(d.totalizer),
        sp \in Fmt2(d.setpoint), vd \in Fmt2(d.valve_drive) }

\* The device state a command line leaves, and the error it raises ("" for none)
BasisHandleWrite(d, cmd) ==
    LET d1 == [d EXCEPT !.unit = cmd.unit]
    IN  CASE cmd.verb = "" -> [dev |-> d1, err |-> ""]
          [] cmd.verb = "GS" ->
                IF cmd.args[1] \in 0..(Len(GASES) - 1)
                THEN [dev |-> [d1 EXCEPT !.gas = GASES[cmd.args[1] + 1]], err |-> ""]
                ELSE [dev |-> d, err |-> ErrInvalidIndex]
          [] cmd.verb = "S" -> [dev |-> [d1 EXCEPT !.setpoint = cmd.args[1]], err |-> ""]
          [] cmd.verb = "HPUR" ->
                [dev |-> [d1 EXCEPT !.hold = TRUE, !.valve_drive = cmd.args[1]], err |-> ""]
          [] cmd.verb = "C" -> [dev |-> [d1 EXCEPT !.hold = FALSE], err |-> ""]
          [] cmd.verb = "V" -> [dev |-> [d1 EXCEPT !.mass_flow = 0], err |-> ""]
          [] cmd.verb = "T" -> [dev |-> [d1 EXCEPT !.totalizer = 0], err |-> ""]
          [] cmd.verb = "LCG" ->
                IF cmd.args = <<>> THEN [dev |-> d1, err |-> ""]
                ELSE [dev |-> [d1 EXCEPT !.pid = cmd.args], err |-> ""]
          [] OTHER -> [dev |-> d, err |-> ErrNotImplemented]

\* The device's reply to LCG, with or without terms: its unit id and the two terms
BasisPidReply(d) == <<Txt(d.unit), Str(d.pid[1]), Str(d.pid[2])>>

\* mock.Client._handle_read: the buffered reply is returned and the buffer cleared
HandleRead(buffered) == [reply |-> buffered, next_reply |-> <<>>]

(***************************************************************************)
(* mock.py: the simulator of the standard protocol                         *)
(***************************************************************************)
\* Client.firmware, as the tokens of the line
FirmwareReply == <<Txt("6v21.0-R22"), Txt("Nov"), Txt("30"), Txt("2016,16:04:20")>>

\* .driver's tables, as mock.py imports them
CONTROL_POINTS == {<<"mass flow", 37>>, <<"abs pressure", 34>>}
MAX_RAMP_TIME_UNITS == {<<"ms", 3>>, <<"s", 4>>, <<"m", 5>>}
MockGASES == GASES

ControlPointNames == {p[1] : p \in CONTROL_POINTS}

\* A word as the string it is: the sequence of its text tokens
Word(s) == <<Txt(s)>>
Chars(cs) == [k \in 1..Len(cs) |-> Txt(cs[k])]
Space == Txt(" ")

ErrValue == "ValueError"
ErrStopIteration == "StopIteration"
ErrAttributeUnset == "AttributeError"

\* Client.__init__: the attributes a new simulator has. unit, max_ramp and
\* max_ramp_time_unit are not assigned there (isset is FALSE until a write
\* assigns them).
Unset == [isset |-> FALSE, value |-> 0, name |-> ""]
MockNew(cp) ==
    [unit |-> "", control_point |-> cp,
     setpoint |-> 10000, gas |-> Word("N2"), mass_flow |-> 9870, pressure |-> 14700,
     temperature |-> 25000, total_flow |-> 0, volumetric_flow |-> 0,
     ramp_config |-> [up |-> FALSE, down |-> FALSE, zero |-> FALSE, power |-> FALSE],
     button_lock |-> FALSE, max_ramp |-> Unset, max_ramp_time_unit |-> Unset]

\* Client._create_dataframe, as the tokens of the line
MockDataframes(s) ==
    { <<Txt(s.unit), Num(p), Num(t), Num(v), Num(m), Num(sp)>> \o s.gas
        \o (IF s.button_lock THEN <<Txt("LCK")>> ELSE <<>>) :
        p \in Fmt2(s.pressure), t \in Fmt2(s.temperature), v \in Fmt2(s.volumetric_flow),
        m \in Fmt2(s.mass_flow), sp \in Fmt2(s.setpoint) }

\* Client._create_ramp_response
Bit(b) == IF b THEN Num(100) ELSE Num(0)
RampResponse(s) ==
    <<Txt(s.unit), Bit(s.ramp_config.up), Bit(s.ramp_config.down), Bit(s.ramp_config.zero),
      Bit(s.ramp_config.power)>>

\* f"SLPM/{self.max_ramp_time_unit}"
PerTime(name) ==
    CASE name = "ms" -> "SLPM/ms"
      [] name = "s" -> "SLPM/s"
      [] OTHER -> "SLPM/m"

\* Client._create_max_ramp_response; both attributes must have been assigned
MaxRampResponse(s) ==
    <<Txt(s.unit), Num(s.max_ramp.value \div 10), Num(700),
      Num(100 * (CHOOSE p \in MAX_RAMP_TIME_UNITS : p[1] = s.max_ramp_time_unit.name)[2]),
      Txt(PerTime(s.max_ramp_time_unit.name))>>

\* f"{self.unit}   122 = {cp}" and f"{self.unit}   046 = {value}"
RegisterReply(u, reg, value) == <<Txt(u), Num(100 * reg), Txt("=")>> \o value

\* msg[k:]
From(msg, k) == SubSeq(msg, k + 1, Len(msg))

\* pattern in msg
Contains(msg, pattern) ==
    \E k \in 0..(Len(msg) - Len(pattern)) : SubSeq(msg, k + 1, k + Len(pattern)) = pattern

\* str.split(' '): the fields between single spaces, empty ones kept
RECURSIVE SplitOnSpace(_)
SplitOnSpace(text) ==
    IF \A k \in 1..Len(text) : text[k] # Space THEN <<text>>
    ELSE LET k == CHOOSE j \in 1..Len(text) : text[j] = Space /\ \A h \in 1..(j - 1) : text[h] # Space
         IN  <<SubSeq(text, 1, k - 1)>> \o SplitOnSpace(From(text, k))

\* str.split(): the non-empty fields
Split(text) == SelectSeq(SplitOnSpace(text), LAMBDA field : field # <<>>)

\* str.strip(), which int() and float() apply to their argument
RECURSIVE Strip(_)
Strip(text) ==
    IF text # <<>> /\ Head(text) = Space THEN Strip(Tail(text))
    ELSE IF text # <<>> /\ Last(text) = Space THEN Strip(ButLast(text))
    ELSE text

\* float(text): a number token, in thousandths; ValueError otherwise
IsFloat(text) == Len(Strip(text)) = 1 /\ Strip(text)[1].txt = ""
float(text) == Strip(text)[1].num * 10

\* int(text): a number token without decimals; ValueError otherwise
IsInt(text) == IsFloat(text) /\ Strip(text)[1].num % 100 = 0
int(text) == Strip(text)[1].num \div 100

\* What a write leaves: the attributes, the buffered reply, the error raised
Raised(s, buffered, e) == {[sim |-> s, next_reply |-> buffered, err |-> e]}
Replied(s, replies) == {[sim |-> s, next_reply |-> r, err |-> ""] : r \in replies}

\* elif 'W122=' in msg: set control point
SetControlPoint(s, buffered, msg) ==
    IF ~IsInt(From(msg, 5)) THEN Raised(s, buffered, ErrValue)
    ELSE LET cp == int(From(msg, 5))
         IN  IF \A p \in CONTROL_POINTS : p[2] # cp THEN Raised(s, buffered, ErrStopIteration)
             ELSE Replied([s EXCEPT !.control_point = (CHOOSE p \in CONTROL_POINTS : p[2] = cp)[1]],
                          {RegisterReply(s.unit, 122, <<Num(100 * cp)>>)})

\* elif 'LSRC' in msg: set ramp config
SetRampConfig(s, buffered, msg) ==
    LET values == SplitOnSpace(From(msg, 5))
        on(k) == values[k] = <<Num(100)>>
    IN  IF Len(values) < 4 THEN Raised(s, buffered, ErrIndex)
        ELSE LET s1 == [s EXCEPT !.ramp_config =
                            [up |-> on(1), down |-> on(2), zero |-> on(3), power |-> on(4)]]
             IN  Replied(s1, {RampResponse(s1)})

\* elif msg == 'SR': get max ramp rate
GetMaxRamp(s, buffered) ==
    IF ~s.max_ramp.isset \/ ~s.max_ramp_time_unit.isset THEN Raised(s, buffered, ErrAttributeUnset)
    ELSE Replied(s, {MaxRampResponse(s)})

\* elif 'SR' in msg: set max ramp rate. max_ramp is assigned before the time
\* unit is parsed and looked up.
SetMaxRamp(s, buffered, msg) ==
    LET values == Split(msg)
    IN  IF Len(values) < 2 THEN Raised(s, buffered, ErrIndex)
        ELSE IF ~IsFloat(values[2]) THEN Raised(s, buffered, ErrValue)
        ELSE LET s1 == [s EXCEPT !.max_ramp = [isset |-> TRUE, value |-> float(values[2]), name |-> ""]]
             IN  IF Len(values) < 3 THEN Raised(s1, buffered, ErrIndex)
                 ELSE IF ~IsInt(values[3]) THEN Raised(s1, buffered, ErrValue)
                 ELSE IF \A p \in MAX_RAMP_TIME_UNITS : p[2] # int(values[3])
                      THEN Raised(s1, buffered, ErrStopIteration)
                 ELSE LET key == (CHOOSE p \in MAX_RAMP_TIME_UNITS : p[2] = int(values[3]))[1]
                          s2 == [s1 EXCEPT !.max_ramp_time_unit =
                                    [isset |-> TRUE, value |-> 0, name |-> key]]
                      IN  Replied(s2, {MaxRampResponse(s2)})

\* elif msg[0] == 'S': set setpoint
SetSetpoint(s, buffered, msg) ==
    IF ~IsFloat(From(msg, 1)) THEN Raised(s, buffered, ErrValue)
    ELSE LET s1 == [s EXCEPT !.setpoint = float(From(msg, 1))]
         IN  Replied(s1, MockDataframes(s1))

\* elif msg[0:6] == '$$W46=': set gas via reg46. The reply is buffered first;
\* a text that int() refuses is stored as it is (ValueError is suppressed), a
\* number is looked up in GASES, from the end if negative.
SetGasRegister(s, msg) ==
    LET gas == From(msg, 6)
        reply == RegisterReply(s.unit, 46, gas)
    IN  IF ~IsInt(gas) THEN Replied([s EXCEPT !.gas = gas], {reply})
        ELSE LET n == int(gas)
             IN  IF n >= Len(MockGASES) \/ n < -Len(MockGASES) THEN Raised(s, reply, ErrIndex)
                 ELSE LET k == IF n < 0 THEN n + Len(MockGASES) ELSE n
                      IN  Replied([s EXCEPT !.gas = Word(MockGASES[k + 1])], {reply})

\* elif msg == '$$R46': read gas via reg46
GetGasRegister(s, buffered) ==
    IF \A k \in 1..Len(MockGASES) : Word(MockGASES[k]) # s.gas THEN Raised(s, buffered, ErrValue)
    ELSE LET gas_index == (CHOOSE k \in 1..Len(MockGASES) : Word(MockGASES[k]) = s.gas) - 1
         IN  Replied(s, {RegisterReply(s.unit, 46, <<Num(100 * (gas_index % 512))>>)})

\* The if/elif chain of Client._handle_write: the first test that msg passes
\* selects the handler, so that the order of the tests is the priority
Dispatch(s, buffered, msg) ==
        IF msg = <<>> THEN Replied(s, MockDataframes(s))
        ELSE IF msg = Chars(<<"$", "$", "L">>)
             THEN LET s1 == [s EXCEPT !.button_lock = TRUE] IN Replied(s1, MockDataframes(s1))
        ELSE IF msg = Chars(<<"$", "$", "U">>)
             THEN LET s1 == [s EXCEPT !.button_lock = FALSE] IN Replied(s1, MockDataframes(s1))
        ELSE IF Contains(msg, Chars(<<"W", "1", "2", "2", "=">>)) THEN SetControlPoint(s, buffered, msg)
        ELSE IF msg = Chars(<<"R", "1", "2", "2">>)
             THEN Replied(s, {RegisterReply(s.unit, 122,
                     <<Num(100 * (CHOOSE p \in CONTROL_POINTS : p[1] = s.control_point)[2])>>)})
        ELSE IF msg = Chars(<<"L", "S", "R", "C">>) THEN Replied(s, {RampResponse(s)})
        ELSE IF Contains(msg, Chars(<<"L", "S", "R", "C">>)) THEN SetRampConfig(s, buffered, msg)
        ELSE IF msg = Chars(<<"S", "R">>) THEN GetMaxRamp(s, buffered)
        ELSE IF Contains(msg, Chars(<<"S", "R">>)) THEN SetMaxRamp(s, buffered, msg)
        ELSE IF msg[1] = Txt("S") THEN SetSetpoint(s, buffered, msg)
        ELSE IF SubSeq(msg, 1, Min(6, Len(msg))) = Chars(<<"$", "$", "W", "4", "6", "=">>)
             THEN SetGasRegister(s, msg)
        ELSE IF msg = Chars(<<"$", "$", "R", "4", "6">>) THEN GetGasRegister(s, buffered)
        ELSE IF msg = Chars(<<"V", "E">>) THEN Replied(s, {FirmwareReply})
        ELSE IF msg = Chars(<<"$", "$", "P", "C">>)
             THEN LET s1 == [s EXCEPT !.pressure = 0] IN Replied(s1, MockDataframes(s1))
        ELSE IF msg = Chars(<<"$", "$", "V">>)
             THEN LET s1 == [s EXCEPT !.volumetric_flow = 0] IN Replied(s1, MockDataframes(s1))
        ELSE Raised(s, buffered, ErrNotImplemented)

\* A chain that tests msg[0] == 'S' before the 'SR' tests
HandleWrite_SetpointFirst(s0, buffered, data) ==
    IF data = <<>> THEN Raised(s0, buffered, ErrIndex)
    ELSE LET s == [s0 EXCEPT !.unit = data[1].txt]
             msg == Tail(data)
         IN  IF msg # <<>> /\ msg[1] = Txt("S") THEN SetSetpoint(s, buffered, msg)
             ELSE Dispatch(s, buffered, msg)

\* Client._handle_write: the outcomes of writing the line data to a simulator
\* with attributes s0 and buffered reply buffered. The unit id is adopted
\* before the chain is entered.
HandleWrite(s0, buffered, data) ==
    IF data = <<>> THEN Raised(s0, buffered, ErrIndex)
    ELSE LET s == [s0 EXCEPT !.unit = data[1].txt]
             msg == Tail(data)
         IN  Dispatch(s, buffered, msg)

(***************************************************************************)
(* State                                                                   *)
(***************************************************************************)
Arg(n) == [isstr |-> FALSE, name |-> "", number |-> n]
NoArg == Arg(0)

NoCall == [op |-> "none", arg |-> NoArg, err |-> ""]

Brief(c) == [op |-> c.op, arg |-> c.arg, err |-> c.err]

Call(op, arg, sent, ks0, err, state, after) ==
    [op |-> op, arg |-> arg, sent |-> sent, keys0 |-> ks0, err |-> err, state |-> state,
     after |-> after]

Idle == Call("none", NoArg, <<>>, NominalKeys, "", {}, NoCall)

FlowInputs == {k * 3335 : k \in 0..MaxFlowK}
HoldInputs == {25000 + k * 50005 : k \in 0..MaxHoldK}
GasInputs == {GasName(n) : n \in GasNames \cup {"C3H8"}}
                \cup {GasNumber(n) : n \in 0..MaxGasNumber}

DevInit ==
    { [unit |-> "A", temperature |-> 25000, mass_flow |-> m, totalizer |-> 0,
       setpoint |-> 10000, valve_drive |-> 0, gas |-> "N2", hold |-> FALSE,
       pid |-> <<0, 0>>] :
      m \in {9870, 10000} }

Init ==
    /\ cls \in {"Meter", "Controller"}
    /\ firmware = None
    /\ read = <<>>
    /\ sim = MockNew("mass flow")
    /\ unit = "A"
    /\ keys = NominalKeys
    /\ dev \in DevInit
    /\ next_reply = <<>>
    /\ line = <<>>
    /\ last = Idle

(***************************************************************************)
(* The driver against the simulated device: one action per operation, the  *)
(* whole round trip (_write_and_read: write the line, read the reply).     *)
(***************************************************************************)
\* One round trip that the device answers: w is BasisHandleWrite's result
Replies(w) == BasisDataframes(w.dev)

Get ==
    LET cmd == GetCommand(unit)
        w == BasisHandleWrite(dev, cmd)
    IN  \E buffered \in Replies(w) :
            LET rd == HandleRead(buffered)
                out == get(cls, unit, keys, rd.reply)
            IN  /\ dev' = w.dev
                /\ next_reply' = rd.next_reply
                /\ line' = rd.reply
                /\ keys' = out.keys
                /\ last' = Call("get", NoArg, <<cmd>>, keys, out.err, out.state, Brief(last))
                /\ UNCHANGED <<cls, firmware, read, sim, unit>>

SetGas(gas) ==
    LET rq == SetGasRequest(unit, gas)
    IN  IF rq.err # ""
        THEN /\ last' = Call("set_gas", gas, rq.cmds, keys, rq.err, {}, NoCall)
             /\ line' = <<>>
             /\ UNCHANGED <<cls, firmware, read, sim, unit, keys, dev, next_reply>>
        ELSE LET w == BasisHandleWrite(dev, rq.cmds[1])
             IN  IF w.err # ""
                 THEN /\ last' = Call("set_gas", gas, rq.cmds, keys, w.err, {}, NoCall)
                      /\ line' = <<>>
                      /\ UNCHANGED <<cls, firmware, read, sim, unit, keys, dev, next_reply>>
                 ELSE \E buffered \in Replies(w) :
                        LET rd == HandleRead(buffered)
                            err == SetGasCheck(Rep(rd.reply))
                        IN  /\ dev' = w.dev
                            /\ next_reply' = rd.next_reply
                            /\ line' = rd.reply
                            /\ last' = Call("set_gas", gas, rq.cmds, keys, err, {}, NoCall)
                            /\ UNCHANGED <<cls, firmware, read, sim, unit, keys>>

SetFlowRate(flowrate) ==
    /\ cls = "Controller"
    /\ LET cmd == SetFlowRateCommand(unit, flowrate)
           w == BasisHandleWrite(dev, cmd)
       IN  \E buffered \in Replies(w) :
             LET rd == HandleRead(buffered)
             IN  /\ dev' = w.dev
                 /\ next_reply' = rd.next_reply
                 /\ line' = rd.reply
                 /\ last' = Call("set_flow_rate", Arg(flowrate), <<cmd>>, keys,
                                 SetFlowRateCheck(flowrate, rd.reply), {}, NoCall)
                 /\ UNCHANGED <<cls, firmware, read, sim, unit, keys>>

Hold(percentage) ==
    /\ cls = "Controller"
    /\ LET cmd == HoldCommand(unit, percentage)
           w == BasisHandleWrite(dev, cmd)
       IN  \E buffered \in Replies(w) :
             LET rd == HandleRead(buffered)
             IN  /\ dev' = w.dev
                 /\ next_reply' = rd.next_reply
                 /\ line' = rd.reply
                 /\ last' = Call("hold", Arg(percentage), <<cmd>>, keys, "", {}, NoCall)
                 /\ UNCHANGED <<cls, firmware, read, sim, unit, keys>>

CancelHold ==
    /\ cls = "Controller"
    /\ LET cmd == CancelHoldCommand(unit)
           w == BasisHandleWrite(dev, cmd)
       IN  \E buffered \in Replies(w) :
             LET rd == HandleRead(buffered)
             IN  /\ dev' = w.dev
                 /\ next_reply' = rd.next_reply
                 /\ line' = rd.reply
                 /\ last' = Call("cancel_hold", NoArg, <<cmd>>, keys, "", {}, NoCall)
                 /\ UNCHANGED <<cls, firmware, read, sim, unit, keys>>

Next ==
    \/ Get
    \/ \E gas \in GasInputs : SetGas(gas)
    \/ \E flowrate \in FlowInputs : SetFlowRate(flowrate)
    \/ \E percentage \in HoldInputs : Hold(percentage)
    \/ CancelHold

Spec == Init /\ [][Next]_vars

(***************************************************************************)
(* The driver against an arbitrary device: the reply line of an exchange   *)
(* is composed token by token (unit id, numbers, a gas name, HLD, flags),  *)
(* then get() or set_flow_rate() is called and reads it.                   *)
(***************************************************************************)
UnitTokens == {Txt("A"), Txt("B")}
NumTokens == {Num(0), Num(1000)}
GasTokens == {Txt("N2")}
HoldTokens == {Txt("HLD")}
FlagTokens == {Txt("MOV"), Txt("tov")}
Tokens == UnitTokens \cup NumTokens \cup GasTokens \cup HoldTokens \cup FlagTokens

Phase(tok) ==
    CASE tok \in UnitTokens -> 0
      [] tok \in NumTokens -> 1
      [] tok \in GasTokens -> 2
      [] tok \in HoldTokens -> 3
      [] OTHER -> 4

Count(ln, S) == Cardinality({i \in 1..Len(ln) : ln[i] \in S})

CanEmit(ln, tok) ==
    IF ln = <<>> THEN tok \in UnitTokens
    ELSE /\ tok \notin UnitTokens
         /\ Phase(tok) >= Phase(Last(ln))
         /\ tok \in NumTokens => Count(ln, NumTokens) < MaxNums
         /\ tok \in GasTokens => Count(ln, GasTokens) < 1
         /\ tok \in HoldTokens => Count(ln, HoldTokens) < 1
         /\ tok \in FlagTokens => Count(ln, FlagTokens) < MaxFlags

InitParse == Init /\ dev.mass_flow = 10000

BeginExchange ==
    /\ last.op # "none"
    /\ line' = <<>>
    /\ last' = Idle
    /\ UNCHANGED <<cls, firmware, read, sim, unit, keys, dev, next_reply>>

Emit(tok) ==
    /\ last.op = "none"
    /\ CanEmit(line, tok)
    /\ line' = Append(line, tok)
    /\ UNCHANGED <<cls, firmware, read, sim, unit, keys, dev, next_reply, last>>

GetReply ==
    /\ last.op = "none"
    /\ LET out == get(cls, unit, keys, line)
       IN  /\ keys' = out.keys
           /\ last' = Call("get", NoArg, <<GetCommand(unit)>>, keys, out.err, out.state, NoCall)
    /\ UNCHANGED <<cls, firmware, read, sim, unit, dev, next_reply, line>>

SetFlowRateReply(flowrate) ==
    /\ cls = "Controller"
    /\ last.op = "none"
    /\ last' = Call("set_flow_rate", Arg(flowrate), <<SetFlowRateCommand(unit, flowrate)>>,
                    keys, SetFlowRateCheck(flowrate, line), {}, NoCall)
    /\ UNCHANGED <<cls, firmware, read, sim, unit, keys, dev, next_reply, line>>

NextParse ==
    \/ BeginExchange
    \/ \E tok \in Tokens : Emit(tok)
    \/ GetReply
    \/ \E flowrate \in FlowInputs : SetFlowRateReply(flowrate)

SpecParse == InitParse /\ [][NextParse]_vars

(***************************************************************************)
(* The service operations against the simulated device: taring, resetting  *)
(* the totalizer, the PID terms and the valve hold, with get() in between. *)
(* The device has run before: its totalizer may stand above zero.          *)
(***************************************************************************)
TareDurations == {1, DefaultDuration}
PidInputs == {<<100 + 400 * k, 1000 + 4000 * j>> : k \in 0..MaxPidK, j \in 0..MaxPidK}
TotalizerInit == {0, 12340}

InitService ==
    /\ cls \in {"Meter", "Controller"}
    /\ firmware = None
    /\ read = <<>>
    /\ sim = MockNew("mass flow")
    /\ unit = "A"
    /\ keys = NominalKeys
    /\ dev \in {[d EXCEPT !.totalizer = t] : d \in DevInit, t \in TotalizerInit}
    /\ next_reply = <<>>
    /\ line = <<>>
    /\ last = Idle

Tare(duration) ==
    LET cmd == TareCommand(unit, duration)
        w == BasisHandleWrite(dev, cmd)
    IN  \E buffered \in Replies(w) :
          LET rd == HandleRead(buffered)
          IN  /\ dev' = w.dev
              /\ next_reply' = rd.next_reply
              /\ line' = rd.reply
              /\ last' = Call("tare", Arg(duration), <<cmd>>, keys, TareCheck(Rep(rd.reply)),
                              {}, NoCall)
              /\ UNCHANGED <<cls, firmware, read, sim, unit, keys>>

ResetTotalizer ==
    LET cmd == ResetTotalizerCommand(unit)
        w == BasisHandleWrite(dev, cmd)
    IN  \E buffered \in Replies(w) :
          LET rd == HandleRead(buffered)
          IN  /\ dev' = w.dev
              /\ next_reply' = rd.next_reply
              /\ line' = rd.reply
              /\ last' = Call("reset_totalizer", NoArg, <<cmd>>, keys, "", {}, NoCall)
              /\ UNCHANGED <<cls, firmware, read, sim, unit, keys>>

SetPid(p, i) ==
    /\ cls = "Controller"
    /\ LET cmd == SetPidCommand(unit, p, i)
           w == BasisHandleWrite(dev, cmd)
           rd == HandleRead(BasisPidReply(w.dev))
       IN  /\ dev' = w.dev
           /\ next_reply' = rd.next_reply
           /\ line' = rd.reply
           /\ last' = Call("set_pid", PidArg(p, i), <<cmd>>, keys, "", {}, NoCall)
           /\ UNCHANGED <<cls, firmware, read, sim, unit, keys>>

GetPid ==
    /\ cls = "Controller"
    /\ LET cmd == GetPidCommand(unit)
           w == BasisHandleWrite(dev, cmd)
           rd == HandleRead(BasisPidReply(w.dev))
           out == GetPidResult(Rep(rd.reply), keys)
       IN  /\ dev' = w.dev
           /\ next_reply' = rd.next_reply
           /\ line' = rd.reply
           /\ last' = Call("get_pid", NoArg, <<cmd>>, keys, out.err, out.state, Brief(last))
           /\ UNCHANGED <<cls, firmware, read, sim, unit, keys>>

NextService ==
    \/ Get
    \/ \E duration \in TareDurations : Tare(duration)
    \/ ResetTotalizer
    \/ \E pi \in PidInputs : SetPid(pi[1], pi[2])
    \/ GetPid
    \/ \E percentage \in HoldInputs : Hold(percentage)
    \/ CancelHold

SpecService == InitService /\ [][NextService]_vars

(***************************************************************************)
(* The driver over a link that hands each _write_and_read a chosen reply.  *)
(* No device is modelled: the outcome of a call is a function of the       *)
(* driver's own state (keys, firmware) and of the replies it reads.        *)
(***************************************************************************)
DataframeReply == <<Txt("A"), Num(2500), Num(1000), Num(0), Num(1000), Num(0), Txt("N2")>>

LinkReplies ==
    {None, Rep(<<>>), Rep(<<Txt("?")>>), Rep(<<Txt("A"), Txt("?")>>),
     Rep(DataframeReply), Rep(FirmwareReply), Rep(<<Txt("A"), Num(6400), Num(500)>>)}

LinkGasInputs == {GasName("N2"), GasName("C3H8"), GasNumber(0)}
BatchInputs == {0, 5000}

\* The bookkeeping of a call that made one round trip
Exchange(op, arg, cmd, r, err, state) ==
    /\ read' = <<r>>
    /\ line' = r.line
    /\ last' = Call(op, arg, <<cmd>>, keys, err, state, NoCall)

LinkGet(r) ==
    LET out == get(cls, unit, keys, r.line)
    IN  /\ Exchange("get", NoArg, GetCommand(unit), r, out.err, out.state)
        /\ keys' = out.keys
        /\ UNCHANGED <<cls, firmware, sim, unit, dev, next_reply>>

LinkSetGas(gas, r) ==
    LET rq == SetGasRequest(unit, gas)
    IN  IF rq.err # ""
        THEN /\ read' = <<>>
             /\ line' = <<>>
             /\ last' = Call("set_gas", gas, rq.cmds, keys, rq.err, {}, NoCall)
             /\ UNCHANGED <<cls, firmware, sim, unit, keys, dev, next_reply>>
        ELSE /\ Exchange("set_gas", gas, rq.cmds[1], r, SetGasCheck(r), {})
             /\ UNCHANGED <<cls, firmware, sim, unit, keys, dev, next_reply>>

LinkTare(duration, r) ==
    /\ Exchange("tare", Arg(duration), TareCommand(unit, duration), r, TareCheck(r), {})
    /\ UNCHANGED <<cls, firmware, sim, unit, keys, dev, next_reply>>

LinkResetTotalizer(r) ==
    /\ Exchange("reset_totalizer", NoArg, ResetTotalizerCommand(unit), r, "", {})
    /\ UNCHANGED <<cls, firmware, sim, unit, keys, dev, next_reply>>

LinkGetFirmware(r) ==
    LET out == GetFirmwareResult(unit, firmware, r)
    IN  /\ firmware' = out.firmware
        /\ read' = out.read
        /\ line' = IF out.read = <<>> THEN <<>> ELSE r.line
        /\ last' = Call("get_firmware", NoArg, out.sent, keys, out.err, out.state, NoCall)
        /\ UNCHANGED <<cls, sim, unit, keys, dev, next_reply>>

LinkSetFlowRate(flowrate, r) ==
    /\ cls = "Controller"
    /\ Exchange("set_flow_rate", Arg(flowrate), SetFlowRateCommand(unit, flowrate), r,
                SetFlowRateCheck(flowrate, r.line), {})
    /\ UNCHANGED <<cls, firmware, sim, unit, keys, dev, next_reply>>

LinkHold(percentage, r) ==
    /\ cls = "Controller"
    /\ Exchange("hold", Arg(percentage), HoldCommand(unit, percentage), r, "", {})
    /\ UNCHANGED <<cls, firmware, sim, unit, keys, dev, next_reply>>

LinkCancelHold(r) ==
    /\ cls = "Controller"
    /\ Exchange("cancel_hold", NoArg, CancelHoldCommand(unit), r, "", {})
    /\ UNCHANGED <<cls, firmware, sim, unit, keys, dev, next_reply>>

LinkGetPid(r) ==
    /\ cls = "Controller"
    /\ LET out == GetPidResult(r, keys)
       IN  Exchange("get_pid", NoArg, GetPidCommand(unit), r, out.err, out.state)
    /\ UNCHANGED <<cls, firmware, sim, unit, keys, dev, next_reply>>

LinkSetPid(p, i, r) ==
    /\ cls = "Controller"
    /\ Exchange("set_pid", PidArg(p, i), SetPidCommand(unit, p, i), r, "", {})
    /\ UNCHANGED <<cls, firmware, sim, unit, keys, dev, next_reply>>

LinkGetTotalizerBatch(remaining, current) ==
    /\ cls = "Controller"
    /\ LET out == GetTotalizerBatchResult(remaining, current, keys)
       IN  /\ read' = <<remaining, current>>
           /\ line' = current.line
           /\ last' = Call("get_totalizer_batch", NoArg,
                           <<RemainingCommand(unit), BatchCommand(unit)>>, keys,
                           out.err, out.state, NoCall)
    /\ UNCHANGED <<cls, firmware, sim, unit, keys, dev, next_reply>>

LinkSetTotalizerBatch(batch_volume, r) ==
    /\ cls = "Controller"
    /\ Exchange("set_totalizer_batch", Arg(batch_volume), SetBatchCommand(unit, batch_volume),
                r, SetBatchCheck(r), {})
    /\ UNCHANGED <<cls, firmware, sim, unit, keys, dev, next_reply>>

NextLink ==
    \E r \in LinkReplies :
        \/ LinkGet(r)
        \/ \E gas \in LinkGasInputs : LinkSetGas(gas, r)
        \/ \E duration \in TareDurations : LinkTare(duration, r)
        \/ LinkResetTotalizer(r)
        \/ LinkGetFirmware(r)
        \/ \E flowrate \in FlowInputs : LinkSetFlowRate(flowrate, r)
        \/ \E percentage \in HoldInputs : LinkHold(percentage, r)
        \/ LinkCancelHold(r)
        \/ LinkGetPid(r)
        \/ \E pi \in PidInputs : LinkSetPid(pi[1], pi[2], r)
        \/ \E current \in LinkReplies : LinkGetTotalizerBatch(r, current)
        \/ \E batch_volume \in BatchInputs : LinkSetTotalizerBatch(batch_volume, r)

SpecLink == Init /\ [][NextLink]_vars

(***************************************************************************)
(* The simulator of the standard protocol: command lines are written to    *)
(* it and replies read from it, in any order.                              *)
(***************************************************************************)
\* f'{u}{verb}' followed by the arguments as given
Line(u, verb, args) == <<Txt(u)>> \o Chars(verb) \o args

\* ' '.join(values), with a leading space
RECURSIVE Spaced(_)
Spaced(values) == IF values = <<>> THEN <<>> ELSE <<Space, Head(values)>> \o Spaced(Tail(values))

\* Lines whose verb is one the simulator dispatches on, with arguments it
\* accepts and arguments it does not
KnownCommands ==
    {Line("A", <<>>, <<>>), Line("A", <<"$", "$", "L">>, <<>>), Line("A", <<"$", "$", "U">>, <<>>)}
    \cup {Line("A", <<"W", "1", "2", "2", "=">>, v) :
            v \in {<<Num(3400)>>, <<Num(3700)>>, <<Num(9900)>>, Word("x")}}
    \cup {Line("A", <<"R", "1", "2", "2">>, <<>>)}
    \cup {Line("A", <<"L", "S", "R", "C">>, v) :
            v \in {<<>>, Spaced(<<Num(100), Num(0), Num(100), Num(0)>>), Spaced(<<Num(100), Num(100)>>)}}
    \cup {Line("A", <<"S", "R">>, v) :
            v \in {<<>>, Spaced(<<Num(250), Num(400)>>), Spaced(<<Num(250), Num(900)>>)}}
    \cup {Line("A", <<"S">>, v) : v \in {<<Num(1250)>>, Word("X")}}
    \cup {Line("A", <<"$", "$", "W", "4", "6", "=">>, v) :
            v \in {<<Num(300)>>, <<Num(-100)>>, <<Num(9900)>>, Word("xyz")}}
    \cup {Line("A", <<"$", "$", "R", "4", "6">>, <<>>), Line("A", <<"V", "E">>, <<>>),
          Line("A", <<"$", "$", "P", "C">>, <<>>), Line("A", <<"$", "$", "V">>, <<>>)}

\* Lines whose verb is none of them: verbs of the BASIS protocol, and verbs
\* that only contain the letters of a known one
UnknownCommands ==
    {Line("A", <<"G", "S">>, Spaced(<<Num(300)>>)), Line("A", <<"T">>, <<>>),
     Line("B", <<"V">>, Spaced(<<Num(1000)>>)),
     Line("A", <<"X", "S", "R">>, Spaced(<<Num(250), Num(400)>>))}

MockCommands == KnownCommands \cup UnknownCommands \cup {<<>>}

InitMock ==
    /\ cls = "Controller"
    /\ firmware = None
    /\ read = <<>>
    /\ sim \in {MockNew(cp) : cp \in ControlPointNames}
    /\ unit = "A"
    /\ keys = NominalKeys
    /\ dev \in {d \in DevInit : d.mass_flow = 10000}
    /\ next_reply = <<>>
    /\ line = <<>>
    /\ last = Idle

\* writer.write(data): _handle_write. An error it raises leaves what was
\* assigned before the raise.
MockWrite(data) ==
    \E out \in HandleWrite(sim, next_reply, data) :
        /\ sim' = out.sim
        /\ next_reply' = out.next_reply
        /\ line' = <<>>
        /\ last' = Call("write", NoArg, <<data>>, keys, out.err, {}, NoCall)
        /\ UNCHANGED <<cls, firmware, read, unit, keys, dev>>

\* reader.readuntil(separator): _handle_read
MockRead ==
    LET rd == HandleRead(next_reply)
    IN  /\ line' = rd.reply
        /\ next_reply' = rd.next_reply
        /\ last' = Call("read", NoArg, <<>>, keys, "", {}, NoCall)
        /\ UNCHANGED <<cls, firmware, read, sim, unit, keys, dev>>

NextMock ==
    \/ \E data \in MockCommands : MockWrite(data)
    \/ MockRead

SpecMock == InitMock /\ [][NextMock]_vars

(***************************************************************************)
(* Claims                                                                  *)
(***************************************************************************)
\* What the claims call an over-range flag: MOV, VOV, POV, TOV in any letter case
FlagSpellings ==
    {"MOV", "mov", "Mov", "VOV", "vov", "POV", "pov", "TOV", "tov", "Tov"}

\* A sequence of tokens without its trailing over-range flags
RECURSIVE TrimFlags(_)
TrimFlags(toks) ==
    IF toks # <<>> /\ Last(toks).txt \in FlagSpellings THEN TrimFlags(ButLast(toks)) ELSE toks

\* The value tokens of the line read, flags trimmed
ValueTokens == IF line = <<>> THEN <<>> ELSE TrimFlags(Tail(line))

\* The line read answers the addressed unit
Addressed == line # <<>> /\ Head(line) = Txt(unit)

\* The gas a successful set_gas argument names
GasMeant(gas) == IF gas.isstr THEN gas.name ELSE GASES[gas.number + 1]

GasInTable(gas) == IF gas.isstr THEN gas.name \in GasNames ELSE gas.number \in 0..(Len(GASES) - 1)

C2_UnsupportedGasWritesNothing ==
    [][(last'.op = "set_gas" /\ last'.arg.isstr /\ last'.arg.name \notin GasNames) =>
          /\ last'.err = ErrGas
          /\ last'.sent = <<>>
          /\ dev' = dev
          /\ next_reply' = next_reply]_vars

C2_Witness ==
    /\ last.op = "set_gas"
    /\ last.arg = GasName("C3H8")
    /\ last.err = ErrGas
    /\ last.sent = <<>>
    /\ dev.gas = "He"

\* The case of C3: a reply of the addressed unit with exactly 5 value tokens
\* read by get() while the schema had the 6 keys
FiveAgainstSix ==
    /\ last.op = "get"
    /\ Addressed
    /\ Len(ValueTokens) = 5
    /\ last.keys0 = NominalKeys

WithoutSetpoint == <<"temperature", "mass_flow", "totalizer", "valve_drive", "gas">>
WithoutTotalizer == <<"temperature", "mass_flow", "setpoint", "valve_drive", "gas">>

C4_SixTokensDecodeNominal ==
    (/\ last.op = "get"
     /\ Addressed
     /\ Len(ValueTokens) = 6
     /\ ~(cls = "Controller" /\ ValueTokens[6] = Txt("HLD"))) =>
        /\ last.err = ""
        /\ \A i \in 1..6 : <<NominalKeys[i], Coerce(ValueTokens[i])>> \in last.state

\* C5: get() on a line with one or more trailing over-range flags (any letter
\* case) appended has the outcome of get() on the line without them: the same
\* state or the same failure, and the same schema afterwards.
C5_FlagsIgnored ==
    last.op = "get" =>
        \A k \in 1..(Len(line) - 1) :
            (\A j \in (Len(line) - k + 1)..Len(line) : line[j].txt \in FlagSpellings) =>
                LET bare == get(cls, unit, last.keys0, SubSeq(line, 1, Len(line) - k))
                IN  /\ last.err = bare.err
                    /\ last.state = bare.state
                    /\ keys = bare.keys

C5_Witness ==
    /\ last.op = "get"
    /\ last.err = ""
    /\ Len(line) = 9
    /\ line[8] = Txt("MOV")
    /\ line[9] = Txt("tov")
    /\ <<"gas", Txt("N2")>> \in last.state

\* C6: on a non-empty reply line whose first token differs from the addressed
\* unit id, whatever the number of value tokens, get() fails with the
\* unit-mismatch error and returns no state.
C6_UnitMismatch ==
    (last.op = "get" /\ line # <<>> /\ Head(line) # Txt(unit)) =>
        /\ last.err = ErrUnit
        /\ last.state = {}

\* C7: get() fails with a field-count mismatch whenever, after the flags are
\* stripped, the schema narrowed and a trailing HLD consumed, the number of
\* value tokens left differs from the number of schema keys; it never returns
\* a partial mapping.
C7_FieldCountMismatch ==
    (last.op = "get" /\ Addressed /\ ValueTokens # <<>>) =>
        LET held == cls = "Controller" /\ Last(ValueTokens) = Txt("HLD")
            rest == IF held THEN ButLast(ValueTokens) ELSE ValueTokens
        IN  /\ Len(rest) # Len(keys) => last.err = ErrZip
            /\ last.err = "" => \A i \in 1..Len(keys) : Has(last.state, keys[i])

\* C8: set_flow_rate(target) fails with the setpoint-rejected error exactly
\* when the reply is empty, has no token at the setpoint position, or that
\* token differs from target by more than 0.1; and the token compared is the
\* one get() maps to 'setpoint' for the same line.
C8_SetpointTokenCompared ==
    last.op = "set_flow_rate" =>
        /\ last.err = ErrSetpoint <=>
              \/ Len(line) < 5
              \/ _is_float(line[5]) /\ Abs(Coerce(line[5]).num - last.arg.number) > Tolerance
        /\ (Len(line) >= 5 /\ _is_float(line[5])) =>
              LET g == get(cls, unit, keys, line)
              IN  g.err = "" => <<"setpoint", Coerce(line[5])>> \in g.state

C14_FirmwareMemoized ==
    [][ last'.op = "get_firmware" =>
          IF ~Falsy(firmware)
          THEN /\ last'.sent = <<>>
               /\ last'.err = ""
               /\ last'.state = {<<"firmware", firmware>>}
               /\ firmware' = firmware
          ELSE /\ last'.sent = <<FirmwareCommand(unit)>>
               /\ Falsy(read'[1]) => last'.err = ErrFirmware ]_vars

\* The replies a call read that were neither empty nor missing
Answered(k) == read[k] \notin {None, Rep(<<>>)}

\* The k-th reply a call read was the rejection token, the line '?'
Rejected(k) == read[k] = Rep(<<Txt("?")>>)

\* C15: tare() and set_totalizer_batch(v) fail (their OSError) when the reply
\* is the rejection token '?', and get_totalizer_batch() fails when either of
\* its two replies is '?'; with any other non-empty reply (both non-empty,
\* for the batch read) they do not fail.
C15_RejectionToken ==
    /\ last.op = "tare" =>
          /\ Rejected(1) => last.err = ErrTare
          /\ (Answered(1) /\ ~Rejected(1)) => last.err = ""
    /\ last.op = "set_totalizer_batch" =>
          /\ Rejected(1) => last.err = ErrBatchSet
          /\ (Answered(1) /\ ~Rejected(1)) => last.err = ""
    /\ last.op = "get_totalizer_batch" =>
          /\ (Rejected(1) \/ Rejected(2)) => last.err = ErrBatchRead
          /\ (Answered(1) /\ Answered(2) /\ ~Rejected(1) /\ ~Rejected(2))
                => last.err = ""

\* C15 witness: get_totalizer_batch() whose first query was answered and whose
\* second was rejected, and so failed
C15_Witness ==
    /\ last.op = "get_totalizer_batch"
    /\ read = <<Rep(<<Txt("A"), Num(6400), Num(500)>>), Rep(<<Txt("?")>>)>>
    /\ last.err = ErrBatchRead

\* The errors by which the driver reports a communication failure (OSError)
CommunicationFailures ==
    {ErrRead, ErrSetGas, ErrTare, ErrFirmware, ErrSetpoint, ErrPid, ErrBatchRead, ErrBatchSet}

\* A call read an empty line, or nothing at all
ReadNothing == \E k \in 1..Len(read) : read[k] \in {None, Rep(<<>>)}

\* No command line was written twice by the call, and one line per reply read
WroteOnce ==
    /\ Len(last.sent) = Len(read)
    /\ \A j, k \in 1..Len(last.sent) : last.sent[j] = last.sent[k] => j = k

\* C16: whichever operation it is, a call that reads an empty or a timed-out
\* reply fails with a communication failure (OSError) and has written no
\* command a second time.
C16_EmptyReplyFails ==
    ReadNothing => (last.err \in CommunicationFailures /\ WroteOnce)

\* The line read, without its HLD token
WithoutHold == SelectSeq(line, LAMBDA tok : tok # Txt("HLD"))

\* A state dictionary without its control point
Fields(state) == {p \in state : p[1] # "control_point"}

\* C19: a controller's get() that returns. If the last value token left after
\* flag stripping is HLD, the control point returned is HLD and no state key
\* holds HLD; otherwise the control point is 'mass flow'. And the other tokens
\* land under the same keys as they do when the same reply, without its HLD
\* token, is read from the same driver state.
C19_HoldTokenConsumed ==
    (cls = "Controller" /\ last.op = "get" /\ last.err = "") =>
        LET held == ValueTokens # <<>> /\ Last(ValueTokens) = Txt("HLD")
            plain == get(cls, unit, last.keys0, WithoutHold)
        IN  /\ Val(last.state, "control_point") = Txt(IF held THEN "HLD" ELSE "mass flow")
            /\ held => \A p \in Fields(last.state) : p[2] # Txt("HLD")
            /\ (held /\ plain.err = "") => Fields(last.state) = Fields(plain.state)

\* The simulator's attributes other than the unit id it adopted
DeviceState(s) == [s EXCEPT !.unit = ""]

\* C17: writing a line whose verb is not one of the simulator's verbs fails
\* with NotImplementedError, leaves the device state as it was and buffers
\* no reply.
C17_UnknownVerbFails ==
    [][ (last'.op = "write" /\ last'.sent[1] \in UnknownCommands) =>
            /\ last'.err = ErrNotImplemented
            /\ DeviceState(sim') = DeviceState(sim)
            /\ next_reply' = next_reply ]_vars

\* C18: in every state of the simulator, its gas is a name of the gas table
\* and its control point a name of the control-point table.
C18_GasAndControlPointInTables ==
    /\ \E k \in 1..Len(MockGASES) : sim.gas = Word(MockGASES[k])
    /\ sim.control_point \in ControlPointNames

\* C20: a write of a line with a known verb is processed without error and
\* leaves a non-empty reply buffered; a read returns the buffered reply and
\* clears the buffer, so that a read that follows a read returns the empty
\* line.
C20_RequestReply ==
    [][ /\ (last'.op = "write" /\ last'.sent[1] \in KnownCommands) =>
              (last'.err = "" /\ next_reply' # <<>>)
        /\ last'.op = "read" =>
              /\ line' = next_reply
              /\ next_reply' = <<>>
              /\ last.op = "read" => line' = <<>> ]_vars

\* The verbs the simulator knows; a line's own verb is the longest of them
\* that the text after the unit id starts with
C21_Verbs ==
    {<<>>, <<"$", "$", "L">>, <<"$", "$", "U">>, <<"W", "1", "2", "2", "=">>, <<"R", "1", "2", "2">>,
     <<"L", "S", "R", "C">>, <<"S", "R">>, <<"S">>, <<"$", "$", "W", "4", "6", "=">>,
     <<"$", "$", "R", "4", "6">>, <<"V", "E">>, <<"$", "$", "P", "C">>, <<"$", "$", "V">>}

C21_StartsWith(data, verb) ==
    Len(data) >= 1 + Len(verb) /\ SubSeq(data, 2, 1 + Len(verb)) = Chars(verb)

C21_VerbOf(data) ==
    CHOOSE v \in C21_Verbs :
        /\ C21_StartsWith(data, v)
        /\ \A w \in C21_Verbs : C21_StartsWith(data, w) => Len(w) <= Len(v)

\* The state fields that belong to a line's verb: none for a verb without
\* arguments that only reads
C21_FieldsOf(data) ==
    LET v == C21_VerbOf(data)
        bare == Len(data) = 1 + Len(v)
    IN  IF v \in {<<"$", "$", "L">>, <<"$", "$", "U">>} THEN {"button_lock"}
        ELSE IF v = <<"W", "1", "2", "2", "=">> THEN {"control_point"}
        ELSE IF v = <<"L", "S", "R", "C">> /\ ~bare THEN {"ramp_config"}
        ELSE IF v = <<"S", "R">> /\ ~bare THEN {"max_ramp", "max_ramp_time_unit"}
        ELSE IF v = <<"S">> THEN {"setpoint"}
        ELSE IF v = <<"$", "$", "W", "4", "6", "=">> THEN {"gas"}
        ELSE IF v = <<"$", "$", "P", "C">> THEN {"pressure"}
        ELSE IF v = <<"$", "$", "V">> THEN {"volumetric_flow"}
        ELSE {}

\* The lines of the claim's three cases
C21_SetMaxRamp == Line("A", <<"S", "R">>, Spaced(<<Num(250), Num(400)>>))
C21_SetSetpoint == Line("A", <<"S">>, <<Num(1250)>>)
C21_SetRampConfig == Line("A", <<"L", "S", "R", "C">>, Spaced(<<Num(100), Num(0), Num(100), Num(0)>>))
C21_Reads ==
    {Line("A", v, <<>>) : v \in {<<>>, <<"R", "1", "2", "2">>, <<"L", "S", "R", "C">>, <<"S", "R">>,
                                   <<"$", "$", "R", "4", "6">>, <<"V", "E">>}}

\* C21: a line with a verb the simulator knows is handled by the handler of
\* that verb and changes no state field but the unit id and the fields of
\* that verb: 'SR 2.5 4' sets the max ramp rate and its time unit and leaves
\* the setpoint, 'S12.5' sets the setpoint and leaves the max ramp rate and
\* the ramp config, 'LSRC 1 0 1 0' sets the ramp config, and the reads (bare
\* read, R122, LSRC, SR, $$R46, VE) leave every field but the unit id.
C21_DispatchFrame ==
    [][ (last'.op = "write" /\ last'.sent[1] \in KnownCommands) =>
            LET data == last'.sent[1] IN
            /\ \A f \in (DOMAIN sim) \ ({"unit"} \cup C21_FieldsOf(data)) : sim'[f] = sim[f]
            /\ data \in C21_Reads => DeviceState(sim') = DeviceState(sim)
            /\ data = C21_SetMaxRamp =>
                    /\ last'.err = ""
                    /\ sim'.max_ramp = [isset |-> TRUE, value |-> 2500, name |-> ""]
                    /\ sim'.max_ramp_time_unit = [isset |-> TRUE, value |-> 0, name |-> "s"]
                    /\ sim'.setpoint = sim.setpoint
            /\ data = C21_SetSetpoint =>
                    /\ last'.err = ""
                    /\ sim'.setpoint = 12500
                    /\ sim'.max_ramp = sim.max_ramp
                    /\ sim'.max_ramp_time_unit = sim.max_ramp_time_unit
                    /\ sim'.ramp_config = sim.ramp_config
            /\ data = C21_SetRampConfig =>
                    /\ last'.err = ""
                    /\ sim'.ramp_config = [up |-> TRUE, down |-> FALSE, zero |-> TRUE, power |-> FALSE]
                    /\ sim'.max_ramp = sim.max_ramp ]_vars

\* A set-max-ramp line has just been handled on a simulator whose setpoint an
\* earlier line had moved from its initial value
C21_Witness ==
    /\ last.op = "write"
    /\ last.sent[1] = C21_SetMaxRamp
    /\ last.err = ""
    /\ sim.setpoint = 12500
    /\ sim.max_ramp.isset
    /\ sim.max_ramp.value = 2500

\* C22: a line that the simulator fails on (an unknown verb, a W122 value that
\* is no control-point code, a $$W46 index outside the gas table, a malformed
\* number) leaves the simulator as it was before the line: the device state,
\* the current unit id and the buffered reply are all unchanged.
C22_FailureLeavesSimulator ==
    [][ (last'.op = "write" /\ last'.err # "") =>
            /\ sim' = sim
            /\ next_reply' = next_reply ]_vars

====
